---------------------------- MODULE Spec2Model ----------------------------
(***************************************************************************)
(* State-machine model of the 7-stage problem-solving assistant            *)
(* (src/app.py): the Streamlit session state (stage outputs, Q&A lists,    *)
(* PDF artifacts, the rdflib knowledge graph) and the handlers that change *)
(* it (render_stage's "Run Stage" button, the master-report button),       *)
(* together with the pure helpers they call (run_ollama, run_stage,        *)
(* ontology_agent, qa_extractor, update_kg, kg_png, stage_pdf).            *)
(*                                                                         *)
(* Text is a sequence of one-character strings; the model's responses are *)
(* such texts, and the parsers work on them character by character.       *)
(***************************************************************************)
EXTENDS Integers, Sequences, FiniteSets, TLC

VARIABLES
    output,   \* output[n]: st.session_state["stage<n>_output"], <<>> for ""
    qa,       \* qa[n]: st.session_state["stage<n>_qa"], the list of <<q, a>>
    pdf,      \* pdf[n]: st.session_state["stage<n>_pdf"]
    kg,       \* st.session_state.kg: the set of triples of the graph
    last,     \* what the last handler did: stage, steps begun, exception
    odd,      \* the number of non-nominal model responses so far
    ever,     \* the stages whose run body has been entered in this session
    h         \* inputs and results when a helper is run on drawn inputs

vars == <<output, qa, pdf, kg, last, odd, ever, h>>

-----------------------------------------------------------------------------
(* Bounds of the model *)

\* non-nominal model responses allowed in one session
MaxOdd == 1
\* entities per drawn ontology extraction
MaxItems == 2
\* lines per drawn Q&A response
MaxLines == 3
\* characters by which a drawn stage text may exceed the Q&A answer limit
MaxOver == 2

(* Program constants *)

\* text[:1000] in qa_extractor
QALimit == 1000
\* lines[i][3:] in qa_extractor
QPrefix == 3
\* range(1, 8)
NumStages == 7

Stages == 1..NumStages

-----------------------------------------------------------------------------
(* Text helpers (Python str operations) *)

Digit(n) == CASE n = 0 -> "0" [] n = 1 -> "1" [] n = 2 -> "2" [] n = 3 -> "3"
              [] n = 4 -> "4" [] n = 5 -> "5" [] n = 6 -> "6" [] n = 7 -> "7"
              [] n = 8 -> "8" [] n = 9 -> "9"

\* str(n) for a natural number
RECURSIVE IntToStr(_)
IntToStr(n) == IF n < 10 THEN <<Digit(n)>>
               ELSE IntToStr(n \div 10) \o <<Digit(n % 10)>>

IsSpace(c) == c \in {" ", "\n", "\t", "\r"}

Min(S) == CHOOSE x \in S : \A y \in S : x <= y
Max(S) == CHOOSE x \in S : \A y \in S : x >= y

\* the elements of a finite set of integers in increasing order
SortedSeq(S) == [k \in 1..Cardinality(S) |->
                    CHOOSE x \in S : Cardinality({y \in S : y < x}) = k - 1]

\* str.strip()
Strip(s) ==
    LET keep == {i \in DOMAIN s : ~IsSpace(s[i])}
    IN  IF keep = {} THEN <<>> ELSE SubSeq(s, Min(keep), Max(keep))

\* s[:n]
Take(s, n) == SubSeq(s, 1, IF Len(s) < n THEN Len(s) ELSE n)

\* s[n:]
Drop(s, n) == SubSeq(s, n + 1, Len(s))

\* s.startswith(p)
StartsWith(s, p) == Len(s) >= Len(p) /\ SubSeq(s, 1, Len(p)) = p

\* s.split(sep) for a one-character separator: the list of fields
SplitOn(s, sep) ==
    LET cut == <<0>> \o SortedSeq({i \in DOMAIN s : s[i] = sep}) \o <<Len(s) + 1>>
    IN  [k \in 1..(Len(cut) - 1) |-> SubSeq(s, cut[k] + 1, cut[k + 1] - 1)]

-----------------------------------------------------------------------------
(* 3. OLLAMA HELPER *)

ErrorTag == <<"E", "r", "r", "o", "r", ":", " ">>
ExceptionTag == <<"E", "x", "c", "e", "p", "t", "i", "o", "n", ":", " ">>

\* What subprocess.run can do: exit 0 with a stdout, exit non-zero with a
\* stderr, or raise (TimeoutExpired after 180 s, OSError on launch) with a
\* message.  proc = [kind, text].
ProcOk(text) == [kind |-> "ok", text |-> text]
ProcFail(text) == [kind |-> "fail", text |-> text]
ProcRaise(text) == [kind |-> "raise", text |-> text]

run_ollama_raises(proc) ==
    IF proc.kind = "ok" THEN [exc |-> "none", text |-> Strip(proc.text)]
    ELSE [exc |-> "OllamaError", text |-> <<>>]

\* run_ollama(prompt): the returned text; never raises (exc is always "none")
run_ollama(proc) ==
    CASE proc.kind = "ok" -> [exc |-> "none", text |-> Strip(proc.text)]
      [] proc.kind = "fail" -> [exc |-> "none", text |-> ErrorTag \o proc.text]
      [] proc.kind = "raise" -> [exc |-> "none", text |-> ExceptionTag \o proc.text]

-----------------------------------------------------------------------------
(* 4. STAGE PROMPT TEMPLATES *)

\* The named placeholders of STAGE_PROMPTS["stage<n>"], in template order
Placeholders(n) ==
    CASE n = 1 -> <<"problem", "context">>
      [] n = 2 -> <<"stage1_output", "user_data">>
      [] n = 3 -> <<"stage1_output", "stage2_output", "preferences">>
      [] n = 4 -> <<"stage3_output", "criteria">>
      [] n = 5 -> <<"stage4_output", "resources">>
      [] n = 6 -> <<"stage5_output", "testing_info">>
      [] n = 7 -> <<"stage6_output", "reflection">>

\* "stage<i>_output"
OutputKey(i) ==
    CASE i = 1 -> "stage1_output" [] i = 2 -> "stage2_output"
      [] i = 3 -> "stage3_output" [] i = 4 -> "stage4_output"
      [] i = 5 -> "stage5_output" [] i = 6 -> "stage6_output"
      [] i = 7 -> "stage7_output"

Range(f) == {f[i] : i \in DOMAIN f}

\* STAGE_PROMPTS[stage_key].format(**kwargs): KeyError when a placeholder has
\* no entry in kwargs; otherwise the prompt, kept as the substituted values
\* in template order (the fixed text between them carries no state).
format(n, kwargs) ==
    IF \E i \in DOMAIN Placeholders(n) : Placeholders(n)[i] \notin DOMAIN kwargs
    THEN [exc |-> "KeyError", prompt |-> <<>>]
    ELSE [exc |-> "none",
          prompt |-> [i \in DOMAIN Placeholders(n) |-> kwargs[Placeholders(n)[i]]]]

run_stage_invoke_first(n, kwargs, proc) ==
    LET f == format(n, kwargs)
        r == run_ollama(proc)
    IN  [exc |-> f.exc, text |-> IF f.exc = "none" THEN r.text ELSE <<>>,
         calls |-> 1]

\* run_stage(stage_key, **kwargs): format the prompt, then run Ollama.
\* calls is the number of model invocations made.
run_stage(n, kwargs, proc) ==
    LET f == format(n, kwargs)
    IN  IF f.exc # "none" THEN [exc |-> f.exc, text |-> <<>>, calls |-> 0]
        ELSE LET r == run_ollama(proc)
             IN  [exc |-> r.exc, text |-> r.text, calls |-> 1]

-----------------------------------------------------------------------------
(* json.loads: a tokenizer and a recursive-descent parser for JSON objects, *)
(* arrays, strings (no escapes), unsigned integers and null.                *)
(* A value is [t |-> "obj" | "arr" | "str" | "num" | "null", v |-> ...]:     *)
(* an object's v is its sequence of <<key, value>> members, an array's v    *)
(* its sequence of values, a string's or number's v its characters.         *)

DQ == "\""
LB == "{"
RB == "}"
Punct == {"{", "}", "[", "]", ",", ":"}
Digits == {"0", "1", "2", "3", "4", "5", "6", "7", "8", "9"}
NullWord == <<"n", "u", "l", "l">>

\* index of the first c in s at or after position i, 0 when there is none
IndexFrom(s, c, i) ==
    LET at == {j \in i..Len(s) : s[j] = c} IN IF at = {} THEN 0 ELSE Min(at)

\* index of the last c in s, 0 when there is none
LastIndex(s, c) ==
    LET at == {j \in DOMAIN s : s[j] = c} IN IF at = {} THEN 0 ELSE Max(at)

\* the number of double quotes before position i: odd inside a string
QuotesBefore(s, i) == Cardinality({j \in 1..(i - 1) : s[j] = DQ})

NullAt(s, i) == i + Len(NullWord) - 1 <= Len(s)
                /\ SubSeq(s, i, i + Len(NullWord) - 1) = NullWord

\* the positions where a token starts: punctuation, an opening quote, the
\* first digit of a number, the n of null
TokenStarts(s) ==
    {i \in DOMAIN s :
        /\ QuotesBefore(s, i) % 2 = 0
        /\ \/ s[i] \in Punct
           \/ s[i] = DQ
           \/ s[i] \in Digits /\ (i = 1 \/ s[i - 1] \notin Digits)
           \/ NullAt(s, i)}

\* a character outside every token and not whitespace
BadChar(s, i) ==
    /\ QuotesBefore(s, i) % 2 = 0
    /\ s[i] \notin Punct \cup Digits \cup {DQ}
    /\ ~IsSpace(s[i])
    /\ ~\E j \in (i - Len(NullWord) + 1)..i : j >= 1 /\ NullAt(s, j)

\* the token <<kind, chars>> that starts at position i
TokenAt(s, i) ==
    IF s[i] \in Punct THEN <<"p", <<s[i]>>>>
    ELSE IF s[i] = DQ THEN <<"s", SubSeq(s, i + 1, IndexFrom(s, DQ, i + 1) - 1)>>
    ELSE IF s[i] \in Digits THEN
        LET stop == {j \in (i + 1)..Len(s) : s[j] \notin Digits}
        IN  <<"n", SubSeq(s, i, IF stop = {} THEN Len(s) ELSE Min(stop) - 1)>>
    ELSE <<"w", NullWord>>

\* the scanner: [ok, toks]; not ok on an unterminated string or a character
\* that starts no token
Lex(s) ==
    IF QuotesBefore(s, Len(s) + 1) % 2 = 1 \/ \E i \in DOMAIN s : BadChar(s, i)
    THEN [ok |-> FALSE, toks |-> <<>>]
    ELSE LET at == SortedSeq(TokenStarts(s))
         IN  [ok |-> TRUE, toks |-> [k \in DOMAIN at |-> TokenAt(s, at[k])]]

PTok(c) == <<"p", <<c>>>>
NoValue == [t |-> "none", v |-> <<>>]
ParseFail == [ok |-> FALSE, val |-> NoValue]

\* the bracket depth of token i: brackets and braces opened and not closed
\* before it
Depth(ts, i) ==
    Cardinality({j \in 1..(i - 1) : ts[j] \in {PTok("{"), PTok("[")}})
    - Cardinality({j \in 1..(i - 1) : ts[j] \in {PTok("}"), PTok("]")}})

\* the spans <<first, last>> between the commas directly inside the
\* bracket pair at tokens a and b
ItemSpans(ts, a, b) ==
    LET seps == {i \in (a + 1)..(b - 1) :
                    ts[i] = PTok(",") /\ Depth(ts, i) = Depth(ts, a) + 1}
        cut == <<a>> \o SortedSeq(seps) \o <<b>>
    IN  [k \in 1..(Len(cut) - 1) |-> <<cut[k] + 1, cut[k + 1] - 1>>]

\* the value that tokens a..b spell, if they spell exactly one
RECURSIVE ParseSpan(_, _, _)
ParseSpan(ts, a, b) ==
    IF a > b THEN ParseFail
    ELSE IF a = b THEN
        CASE ts[a][1] = "s" -> [ok |-> TRUE, val |-> [t |-> "str", v |-> ts[a][2]]]
          [] ts[a][1] = "n" -> [ok |-> TRUE, val |-> [t |-> "num", v |-> ts[a][2]]]
          [] ts[a][1] = "w" -> [ok |-> TRUE, val |-> [t |-> "null", v |-> <<>>]]
          [] OTHER -> ParseFail
    ELSE IF ts[a] = PTok("[") /\ ts[b] = PTok("]") THEN
        IF b = a + 1 THEN [ok |-> TRUE, val |-> [t |-> "arr", v |-> <<>>]]
        ELSE LET sp == ItemSpans(ts, a, b)
                 el == [k \in DOMAIN sp |-> ParseSpan(ts, sp[k][1], sp[k][2])]
             IN  IF \A k \in DOMAIN el : el[k].ok
                 THEN [ok |-> TRUE,
                       val |-> [t |-> "arr", v |-> [k \in DOMAIN el |-> el[k].val]]]
                 ELSE ParseFail
    ELSE IF ts[a] = PTok("{") /\ ts[b] = PTok("}") THEN
        IF b = a + 1 THEN [ok |-> TRUE, val |-> [t |-> "obj", v |-> <<>>]]
        ELSE LET sp == ItemSpans(ts, a, b)
                 wf == \A k \in DOMAIN sp :
                          /\ sp[k][2] >= sp[k][1] + 2
                          /\ ts[sp[k][1]][1] = "s"
                          /\ ts[sp[k][1] + 1] = PTok(":")
                 el == [k \in DOMAIN sp |-> ParseSpan(ts, sp[k][1] + 2, sp[k][2])]
             IN  IF wf /\ \A k \in DOMAIN el : el[k].ok
                 THEN [ok |-> TRUE,
                       val |-> [t |-> "obj",
                                v |-> [k \in DOMAIN el |-> <<ts[sp[k][1]][2], el[k].val>>]]]
                 ELSE ParseFail
    ELSE ParseFail

\* json.loads(s): ok = FALSE stands for JSONDecodeError
json_loads(s) ==
    LET l == Lex(s)
    IN  IF ~l.ok THEN ParseFail ELSE ParseSpan(l.toks, 1, Len(l.toks))

\* dict.get / dict[key] on an object's members: the last member named key
\* (json.loads keeps the last of repeated keys); 0 when there is none
MemberIndex(members, key) ==
    LET at == {i \in DOMAIN members : members[i][1] = key}
    IN  IF at = {} THEN 0 ELSE Max(at)

HasKey(obj, key) == MemberIndex(obj.v, key) # 0
GetKey(obj, key) == obj.v[MemberIndex(obj.v, key)][2]

-----------------------------------------------------------------------------
(* 5. ONTOLOGY AGENT *)

EmptyDict == [t |-> "obj", v |-> <<>>]

BraceSpan_lazy(raw) ==
    LET i == IndexFrom(raw, LB, 1)
        j == IndexFrom(raw, RB, i + 1)
    IN  IF i # 0 /\ j > i THEN [found |-> TRUE, text |-> SubSeq(raw, i, j)]
        ELSE [found |-> FALSE, text |-> <<>>]

\* re.search(r"\{.*\}", raw, re.DOTALL): the leftmost match starts at the
\* first "{", and the greedy .* ends it at the last "}" after it.
\* [found, text]
BraceSpan(raw) ==
    LET i == IndexFrom(raw, LB, 1)
        j == LastIndex(raw, RB)
    IN  IF i # 0 /\ j > i THEN [found |-> TRUE, text |-> SubSeq(raw, i, j)]
        ELSE [found |-> FALSE, text |-> <<>>]

\* ontology_agent(text): the parsed value (whatever JSON value it is), and
\* the strategy that produced it: "strict" (line 114), "scan" (line 121),
\* "empty" (lines 123 and 124).  One model invocation.
ontology_agent(proc) ==
    LET raw == run_ollama(proc).text
        direct == json_loads(raw)
        m == BraceSpan(raw)
        inner == json_loads(m.text)
    IN  IF direct.ok THEN [val |-> direct.val, path |-> "strict", calls |-> 1]
        ELSE IF m.found /\ inner.ok
             THEN [val |-> inner.val, path |-> "scan", calls |-> 1]
        ELSE [val |-> EmptyDict, path |-> "empty", calls |-> 1]

-----------------------------------------------------------------------------
(* 7. KNOWLEDGE GRAPH UPDATE *)
(* The rdflib Graph is a set of triples <<s, p, o>>; a term is a URIRef     *)
(* [k |-> "uri", ns, v] (namespace and local name) or a Literal             *)
(* [k |-> "lit", ns, v] (datatype and lexical form).                        *)

kEntities == <<"e", "n", "t", "i", "t", "i", "e", "s">>
kRelations == <<"r", "e", "l", "a", "t", "i", "o", "n", "s">>
kAttributes == <<"a", "t", "t", "r", "i", "b", "u", "t", "e", "s">>
kId == <<"i", "d">>
kLabel == <<"l", "a", "b", "e", "l">>
kType == <<"t", "y", "p", "e">>
kFrom == <<"f", "r", "o", "m">>
kTo == <<"t", "o">>
kEntity == <<"e", "n", "t", "i", "t", "y">>
kKey == <<"k", "e", "y">>
kValue == <<"v", "a", "l", "u", "e">>

StrVal(chars) == [t |-> "str", v |-> chars]

URIRef(ns, local) == [k |-> "uri", ns |-> ns, v |-> local]
Literal(dt, lex) == [k |-> "lit", ns |-> dt, v |-> lex]

\* str(x) of a JSON value inside an f-string
PyStr(x) == CASE x.t \in {"str", "num"} -> x.v
              [] x.t = "null" -> <<"N", "o", "n", "e">>

\* PSO[x]: Namespace.term appends x when it is a str, nothing otherwise
PSO(x) == URIRef("pso", IF x.t = "str" THEN x.v ELSE <<>>)

RDF_type == URIRef("rdf", kType)
RDFS_label == URIRef("rdfs", kLabel)
PSO_inStage == URIRef("pso", <<"i", "n", "S", "t", "a", "g", "e">>)

\* PSO[f"Stage{stage_num}"]
StageURI(n) == URIRef("pso", <<"S", "t", "a", "g", "e">> \o IntToStr(n))

\* Literal(x) and Literal(x, datatype=XSD.string)
PlainLiteral(x) == Literal(IF x.t = "num" THEN "xsd:integer" ELSE "", PyStr(x))
StringLiteral(x) == Literal("xsd:string", PyStr(x))

StageId_plain(x, tag) == StrVal(PyStr(x))

\* f"{x}_S{stage_num}"
StageId(x, tag) == StrVal(PyStr(x) \o <<"_", "S">> \o tag)

\* d.get(key, default) on a dict d
Get(d, key, default) == IF HasKey(d, key) THEN GetKey(d, key) ELSE default

\* for x in v: the items, or TypeError when v is not iterable
Iter(v) ==
    CASE v.t = "arr" -> [exc |-> "none", items |-> v.v]
      [] v.t = "str" -> [exc |-> "none", items |-> [i \in DOMAIN v.v |-> StrVal(<<v.v[i]>>)]]
      [] v.t = "obj" -> [exc |-> "none", items |-> [i \in DOMAIN v.v |-> StrVal(v.v[i][1])]]
      [] OTHER -> [exc |-> "TypeError", items |-> <<>>]

\* x[key] for a loop item x: TypeError unless x is a dict, KeyError when the
\* key is absent
Subscript(x, key) ==
    IF x.t # "obj" THEN [exc |-> "TypeError", val |-> NoValue]
    ELSE IF ~HasKey(x, key) THEN [exc |-> "KeyError", val |-> NoValue]
    ELSE [exc |-> "none", val |-> GetKey(x, key)]

\* lines 171-176, from item i on
RECURSIVE FoldEntities(_, _, _, _, _)
FoldEntities(g, items, i, n, tag) ==
    IF i > Len(items) THEN [g |-> g, exc |-> "none"]
    ELSE LET e == items[i]
             id == Subscript(e, kId)
         IN  IF id.exc # "none" THEN [g |-> g, exc |-> id.exc]
             ELSE LET uri == PSO(StageId(id.val, tag))
                  IN  FoldEntities(
                        g \cup {<<uri, RDF_type, PSO(Get(e, kType, StrVal(<<"E", "n", "t", "i", "t", "y">>)))>>,
                                <<uri, RDFS_label, PlainLiteral(Get(e, kLabel, StrVal(<<>>)))>>,
                                <<uri, PSO_inStage, StageURI(n)>>},
                        items, i + 1, n, tag)

\* lines 179-182, from item i on
RECURSIVE FoldRelations(_, _, _, _, _)
FoldRelations(g, items, i, n, tag) ==
    IF i > Len(items) THEN [g |-> g, exc |-> "none"]
    ELSE LET r == items[i]
             fr == Subscript(r, kFrom)
             to == Subscript(r, kTo)
         IN  IF fr.exc # "none" THEN [g |-> g, exc |-> fr.exc]
             ELSE IF to.exc # "none" THEN [g |-> g, exc |-> to.exc]
             ELSE FoldRelations(
                    g \cup {<<PSO(StageId(fr.val, tag)),
                              PSO(Get(r, kType, StrVal(<<"r", "e", "l", "a", "t", "e", "d", "T", "o">>))),
                              PSO(StageId(to.val, tag))>>},
                    items, i + 1, n, tag)

\* lines 185-187, from item i on
RECURSIVE FoldAttributes(_, _, _, _, _)
FoldAttributes(g, items, i, n, tag) ==
    IF i > Len(items) THEN [g |-> g, exc |-> "none"]
    ELSE LET a == items[i]
             en == Subscript(a, kEntity)
         IN  IF en.exc # "none" THEN [g |-> g, exc |-> en.exc]
             ELSE FoldAttributes(
                    g \cup {<<PSO(StageId(en.val, tag)),
                              PSO(Get(a, kKey, StrVal(<<"p", "r", "o", "p", "e", "r", "t", "y">>))),
                              StringLiteral(Get(a, kValue, StrVal(<<>>)))>>},
                    items, i + 1, n, tag)

\* The body of update_kg with the stage suffix given as text: [g, exc], the
\* graph as the call leaves it and the exception it raises ("none": returns).
\* ont.get on a value that is no dict raises AttributeError.
update_kg_tagged(g, n, tag, ont) ==
    IF ont.t # "obj" THEN [g |-> g, exc |-> "AttributeError"]
    ELSE LET es == Iter(Get(ont, kEntities, [t |-> "arr", v |-> <<>>]))
             rs == Iter(Get(ont, kRelations, [t |-> "arr", v |-> <<>>]))
             as == Iter(Get(ont, kAttributes, [t |-> "arr", v |-> <<>>]))
             g1 == FoldEntities(g, es.items, 1, n, tag)
             g2 == FoldRelations(g1.g, rs.items, 1, n, tag)
             g3 == FoldAttributes(g2.g, as.items, 1, n, tag)
         IN  IF es.exc # "none" THEN [g |-> g, exc |-> es.exc]
             ELSE IF g1.exc # "none" THEN g1
             ELSE IF rs.exc # "none" THEN [g |-> g1.g, exc |-> rs.exc]
             ELSE IF g2.exc # "none" THEN g2
             ELSE IF as.exc # "none" THEN [g |-> g2.g, exc |-> as.exc]
             ELSE g3

update_kg_next_stage(g, n, ont) == update_kg_tagged(g, n, IntToStr(n + 1), ont)

update_kg_fresh(g, n, ont) == update_kg_tagged({}, n, IntToStr(n), ont)

update_kg_by_size(g, n, ont) == update_kg_tagged(g, n, IntToStr(Cardinality(g) + n), ont)

\* update_kg(stage_num, ont) on the session's graph g
update_kg(g, n, ont) == update_kg_tagged(g, n, IntToStr(n), ont)

-----------------------------------------------------------------------------
(* 6. Q&A EXTRACTOR AGENT *)

Sentinel == <<"F", "u", "l", "l", " ", "s", "t", "a", "g", "e", " ", "o", "u", "t", "p", "u", "t">>
\* the single character U+2026 (horizontal ellipsis)
Ellipsis == "U+2026"

\* [l.strip() for l in raw.split("\n") if l.strip()]
NonBlankLines(raw) ==
    LET fields == SplitOn(raw, "\n")
        IsLine(l) == l # <<>>
    IN  SelectSeq([i \in DOMAIN fields |-> Strip(fields[i])], IsLine)

RECURSIVE ParsePairs_greedy(_, _)
ParsePairs_greedy(lines, i) ==
    IF i > Len(lines) THEN <<>>
    ELSE IF StartsWith(lines[i], <<"Q">>) THEN
        IF i + 1 <= Len(lines)
        THEN <<<<Strip(Drop(lines[i], QPrefix)), Strip(Drop(lines[i + 1], QPrefix))>>>>
             \o ParsePairs_greedy(lines, i + 2)
        ELSE <<<<Strip(Drop(lines[i], QPrefix)), <<>>>>>>
    ELSE ParsePairs_greedy(lines, i + 1)

\* the while loop of lines 145-156, from line i on: the pairs <<q, a>>
RECURSIVE ParsePairs(_, _)
ParsePairs(lines, i) ==
    IF i > Len(lines) THEN <<>>
    ELSE IF StartsWith(lines[i], <<"Q">>) THEN
        IF i + 1 <= Len(lines) /\ StartsWith(lines[i + 1], <<"A">>)
        THEN <<<<Strip(Drop(lines[i], QPrefix)), Strip(Drop(lines[i + 1], QPrefix))>>>>
             \o ParsePairs(lines, i + 2)
        ELSE <<<<Strip(Drop(lines[i], QPrefix)), <<>>>>>> \o ParsePairs(lines, i + 1)
    ELSE ParsePairs(lines, i + 1)

Fallback_no_marker(text) == <<Sentinel, Take(text, QALimit)>>

\* line 159: the pair appended when no Q/A was found
Fallback(text) ==
    <<Sentinel, Take(text, QALimit) \o (IF Len(text) > QALimit THEN <<Ellipsis>> ELSE <<>>)>>

\* qa_extractor(text): one model invocation, then the line parser
qa_extractor(text, proc) ==
    LET pairs == ParsePairs(NonBlankLines(run_ollama(proc).text), 1)
    IN  IF pairs = <<>> THEN <<Fallback(text)>> ELSE pairs

-----------------------------------------------------------------------------
(* 8. GRAPH VISUALISATION and 9. PDF GENERATOR *)

\* s.split("_S")[0]: what comes before the first "_S"
BeforeStageMark(s) ==
    LET at == {i \in 1..(Len(s) - 1) : s[i] = "_" /\ s[i + 1] = "S"}
    IN  IF at = {} THEN s ELSE SubSeq(s, 1, Min(at) - 1)

\* uri.split("#")[-1]: every namespace ends in "#", so this is what follows
\* the last "#" of the local name, or all of it
AfterHash(u) ==
    IF \A i \in DOMAIN u.v : u.v[i] # "#" THEN u.v
    ELSE SubSeq(u.v, Max({i \in DOMAIN u.v : u.v[i] = "#"}) + 1, Len(u.v))

\* lines 195-199: the edges kg_png() draws, <<s_label, o_label>> for the
\* triples whose subject and object are both URIRefs
Edges(g) ==
    {<<BeforeStageMark(AfterHash(t[1])), BeforeStageMark(AfterHash(t[3]))>> :
       t \in {x \in g : x[1].k = "uri" /\ x[3].k = "uri"}}

\* graph_img = None (line 285, stage 1)
NoImage == [present |-> FALSE]

\* kg_png(): reads the graph, changes nothing, and returns the PNG bytes of
\* the picture of Edges(g); a PNG file is never empty, so the result is truthy
kg_png(g) == [present |-> TRUE]

NoPdf == [made |-> FALSE, stage |-> 0, pairs |-> <<>>, img |-> FALSE]

\* stage_pdf(stage_num, title, qa_pairs, graph_img): the document, kept as
\* the stage it is titled with, the pairs it lists and whether the graph
\* page is in it (line 237: if graph_img)
stage_pdf(n, pairs, img) ==
    [made |-> TRUE, stage |-> n, pairs |-> pairs, img |-> img.present]

-----------------------------------------------------------------------------
(* 10. UI - render_stage, and 12. STAGES *)

\* deps of the seven render_stage calls, as stage numbers
Deps(n) ==
    CASE n = 1 -> {} [] n = 2 -> {1} [] n = 3 -> {1, 2} [] n = 4 -> {3}
      [] n = 5 -> {4} [] n = 6 -> {5} [] n = 7 -> {6}

\* the keys of the inputs dict of the seven render_stage calls
InputKeys(n) ==
    CASE n = 1 -> {"problem", "context"} [] n = 2 -> {"user_data"}
      [] n = 3 -> {"preferences"} [] n = 4 -> {"criteria"}
      [] n = 5 -> {"resources"} [] n = 6 -> {"testing_info"}
      [] n = 7 -> {"reflection"}

ready_any(out, n) == Deps(n) = {} \/ \E d \in Deps(n) : out[d] # <<>>

\* line 264: ready = all(st.session_state.get(d, "") != "" for d in deps)
ready(out, n) == \A d \in Deps(n) : out[d] # <<>>

\* lines 269-272: {**stage_inputs, **{stage<i>_output for i in range(1, n)}}
Kwargs(out, n, keys, txt) ==
    [k \in keys \cup {OutputKey(i) : i \in 1..(n - 1)} |->
        IF \E i \in 1..(n - 1) : k = OutputKey(i)
        THEN out[CHOOSE i \in 1..(n - 1) : k = OutputKey(i)]
        ELSE txt]

-----------------------------------------------------------------------------
(* The environment: what the user types and what the model process does *)

\* a JSON text of a value (compact), to draw well-formed responses from
RECURSIVE Dumps(_), DumpsItems(_, _), DumpsMembers(_, _)

Dumps(x) ==
    CASE x.t = "str" -> <<DQ>> \o x.v \o <<DQ>>
      [] x.t = "num" -> x.v
      [] x.t = "null" -> NullWord
      [] x.t = "arr" -> <<"[">> \o DumpsItems(x.v, 1) \o <<"]">>
      [] x.t = "obj" -> <<"{">> \o DumpsMembers(x.v, 1) \o <<"}">>

DumpsItems(items, i) ==
    IF i > Len(items) THEN <<>>
    ELSE Dumps(items[i]) \o (IF i < Len(items) THEN <<",">> ELSE <<>>)
         \o DumpsItems(items, i + 1)

DumpsMembers(members, i) ==
    IF i > Len(members) THEN <<>>
    ELSE <<DQ>> \o members[i][1] \o <<DQ, ":">> \o Dumps(members[i][2])
         \o (IF i < Len(members) THEN <<",">> ELSE <<>>)
         \o DumpsMembers(members, i + 1)

Obj(members) == [t |-> "obj", v |-> members]
Arr(items) == [t |-> "arr", v |-> items]

E1 == StrVal(<<"E", "1">>)
E2 == StrVal(<<"E", "2">>)

\* the extraction the ontology prompt shows as its example, in short
Ont1 ==
    Obj(<<<<kEntities, Arr(<<Obj(<<<<kId, E1>>, <<kLabel, StrVal(<<"X">>)>>,
                                    <<kType, StrVal(<<"P">>)>>>>)>>)>>,
          <<kRelations, Arr(<<Obj(<<<<kFrom, E1>>, <<kTo, E2>>,
                                     <<kType, StrVal(<<"r">>)>>>>)>>)>>,
          <<kAttributes, Arr(<<Obj(<<<<kEntity, E1>>, <<kKey, StrVal(<<"k">>)>>,
                                      <<kValue, StrVal(<<"v">>)>>>>)>>)>>>>)

\* one entity without defaults filled in
Ont2 == Obj(<<<<kEntities, Arr(<<Obj(<<<<kId, E2>>>>)>>)>>>>)

\* a good entity, then one without "id"
OntNoId ==
    Obj(<<<<kEntities, Arr(<<Obj(<<<<kId, E2>>>>), Obj(<<<<kLabel, StrVal(<<"X">>)>>>>)>>)>>>>)

Junk == <<"s", "e", "e", ":", " ">>
Trail == <<" ", "o", "k">>

InputTexts == {<<"X">>}

NominalLLM == ProcOk(<<"o", "k">>)
OddLLM == {ProcOk(<<>>), ProcOk(<<" ", "o", "k", "\n">>), ProcFail(<<"x">>),
           ProcRaise(<<"t">>)}

NominalOnt == ProcOk(Dumps(Ont1))
OddOnt == {ProcOk(<<"[", "]">>), ProcOk(Dumps(OntNoId)),
           ProcOk(Junk \o Dumps(Ont2) \o Trail), ProcFail(<<"x">>)}

NominalQA == ProcOk(<<"Q", "1", ":", " ", "a", "\n", "A", "1", ":", " ", "b">>)
OddQA == {ProcOk(<<"n", "o", "n", "e">>), ProcFail(<<"x">>)}

Envs == [llm : {NominalLLM} \cup OddLLM, ont : {NominalOnt} \cup OddOnt,
         qa : {NominalQA} \cup OddQA]

\* the number of non-nominal responses in env
Cost(env) == (IF env.llm = NominalLLM THEN 0 ELSE 1)
             + (IF env.ont = NominalOnt THEN 0 ELSE 1)
             + (IF env.qa = NominalQA THEN 0 ELSE 1)

\* the environments with at most k non-nominal responses
EnvsWithin == [k \in 0..MaxOdd |-> {env \in Envs : Cost(env) <= k}]

\* ontology_agent on each response the environment can give: the same
\* values as ontology_agent(p), computed once
OntologyOf == [p \in {NominalOnt} \cup OddOnt |-> ontology_agent(p)]

-----------------------------------------------------------------------------
(* render_stage: the body of the run *)

StepOrder_qa_first == <<"llm", "qa", "ontology", "pdf">>

\* the order of the four numbered parts of the run (lines 268-287)
StepOrder == <<"llm", "ontology", "qa", "pdf">>

\* One part of the run on the context c (the session's four components, the
\* locals llm_out and pairs, the exception raised so far, the log of steps
\* begun and the count of model invocations).
Step(c, name, n, keys, txt, env) ==
    CASE name = "llm" ->
           LET r == run_stage(n, Kwargs(c.output, n, keys, txt), env.llm)
           IN  IF r.exc # "none"
               THEN [c EXCEPT !.exc = r.exc, !.calls = @ + r.calls,
                              !.steps = @ \o <<"fill">>]
               ELSE [c EXCEPT !.output[n] = r.text, !.llm_out = r.text,
                              !.calls = @ + r.calls,
                              !.steps = @ \o <<"fill", "invoke", "store_output">>]
      [] name = "ontology" ->
           LET o == OntologyOf[env.ont]
               k == update_kg(c.kg, n, o.val)
           IN  [c EXCEPT !.kg = k.g, !.exc = k.exc, !.calls = @ + o.calls,
                         !.steps = @ \o <<"ontology", "fold">>]
      [] name = "qa" ->
           LET q == qa_extractor(c.llm_out, env.qa)
           IN  [c EXCEPT !.qa[n] = q, !.pairs = q, !.calls = @ + 1,
                         !.steps = @ \o <<"qa", "store_qa">>]
      [] name = "pdf" ->
           LET img == IF n > 1 THEN kg_png(c.kg) ELSE NoImage
           IN  [c EXCEPT !.pdf[n] = stage_pdf(n, c.pairs, img),
                         !.steps = @ \o <<"pdf", "store_pdf">>]

\* the parts in order, stopping at the first exception
RECURSIVE RunSteps(_, _, _, _, _, _, _)
RunSteps(c, order, i, n, keys, txt, env) ==
    IF i > Len(order) \/ c.exc # "none" THEN c
    ELSE RunSteps(Step(c, order[i], n, keys, txt, env), order, i + 1, n, keys, txt, env)

-----------------------------------------------------------------------------
(* The session *)

NoRun == [op |-> "init", stage |-> 0, keys |-> {}, ran |-> FALSE, llm |-> "none",
          exc |-> "none", steps |-> <<>>, calls |-> 0]

NoHarness == [fn |-> "none"]

\* lines 41-43 and 326-330: a new session
Init ==
    /\ output = [n \in Stages |-> <<>>]
    /\ qa = [n \in Stages |-> <<>>]
    /\ pdf = [n \in Stages |-> NoPdf]
    /\ kg = {}
    /\ last = NoRun
    /\ odd = 0
    /\ ever = {}
    /\ h = NoHarness

Context == [output |-> output, qa |-> qa, pdf |-> pdf, kg |-> kg, llm_out |-> <<>>,
            pairs |-> <<>>, exc |-> "none", steps |-> <<>>, calls |-> 0]

RenderStage_invalidating(n, keys, txt, env) ==
    /\ odd + Cost(env) <= MaxOdd
    /\ ready(output, n) \/ Cost(env) = 0
    /\ \E go \in {ready(output, n)} :
         \E r \in {IF go THEN RunSteps(Context, StepOrder, 1, n, keys, txt, env)
                    ELSE Context} :
            /\ output' = [m \in Stages |-> IF go /\ n \in Deps(m) THEN <<>> ELSE r.output[m]]
            /\ qa' = r.qa
            /\ pdf' = r.pdf
            /\ kg' = r.kg
            /\ last' = [op |-> "run", stage |-> n, keys |-> keys, ran |-> go,
                        llm |-> IF go THEN env.llm.kind ELSE "none",
                        exc |-> r.exc, steps |-> r.steps, calls |-> r.calls]
            /\ odd' = IF go THEN odd + Cost(env) ELSE odd
            /\ ever' = IF go THEN ever \cup {n} ELSE ever
    /\ UNCHANGED h

\* render_stage(n, title, inputs, deps) with the "Run Stage" button pressed
\* where it is shown: the handler of one attempt to run stage n, its inputs
\* dict having the keys `keys`, every text area holding txt.
\* last records the attempt: whether the body ran, the exception that ended
\* it, the steps it began and the model invocations it made.
RenderStage(n, keys, txt, env) ==
    /\ odd + Cost(env) <= MaxOdd
    /\ ready(output, n) \/ Cost(env) = 0
    /\ \E go \in {ready(output, n)} :
         \E r \in {IF go THEN RunSteps(Context, StepOrder, 1, n, keys, txt, env)
                    ELSE Context} :
            /\ output' = r.output
            /\ qa' = r.qa
            /\ pdf' = r.pdf
            /\ kg' = r.kg
            /\ last' = [op |-> "run", stage |-> n, keys |-> keys, ran |-> go,
                        llm |-> IF go THEN env.llm.kind ELSE "none",
                        exc |-> r.exc, steps |-> r.steps, calls |-> r.calls]
            /\ odd' = IF go THEN odd + Cost(env) ELSE odd
            /\ ever' = IF go THEN ever \cup {n} ELSE ever
    /\ UNCHANGED h

\* kg.serialize(format="turtle").decode() (line 404): serialize returns
\* bytes in rdflib before 6.0 and str from 6.0 on, and str has no decode;
\* the source pins no version of rdflib
SerializeOutcomes == {"none", "AttributeError"}

MasterReport_ungated ==
    /\ \E e \in SerializeOutcomes : last' = [NoRun EXCEPT !.op = "master", !.exc = e]
    /\ UNCHANGED <<output, qa, pdf, kg, odd, ever, h>>

\* lines 382-419: the master report button, shown when stage 7 has output;
\* the session is only read; the report is handed to the download button
\* unless building it raised
MasterReport ==
    /\ output[NumStages] # <<>>
    /\ \E e \in SerializeOutcomes : last' = [NoRun EXCEPT !.op = "master", !.exc = e]
    /\ UNCHANGED <<output, qa, pdf, kg, odd, ever, h>>

Next ==
    \/ \E n \in Stages, txt \in InputTexts, env \in EnvsWithin[MaxOdd - odd] :
          RenderStage(n, InputKeys(n), txt, env)
    \/ MasterReport

Spec == Init /\ [][Next]_vars

-----------------------------------------------------------------------------
(* Properties of the session (Spec) *)

\* the steps a run records, in the order of lines 268-287
AllSteps == <<"fill", "invoke", "store_output", "ontology", "fold", "qa", "store_qa",
              "pdf", "store_pdf">>

IsPrefix(s, t) == Len(s) <= Len(t) /\ SubSeq(t, 1, Len(s)) = s

\* the step just taken was an attempt to run stage n
Attempt(n) == last'.op = "run" /\ last'.stage = n

\* C1: an attempt to run a stage N > 1 while one of its dependency outputs is
\* empty changes neither the stage outputs, nor the Q&A lists, nor the
\* report artifacts, nor the knowledge graph, and invokes the model zero
\* times; stage 1 has no dependency, so it is runnable in every state, the
\* initial one included.
C1_Gating ==
    [][/\ \A n \in Stages :
            (n > 1 /\ Attempt(n) /\ \E d \in Deps(n) : output[d] = <<>>)
                => /\ UNCHANGED <<output, qa, pdf, kg>>
                   /\ ~last'.ran
                   /\ last'.calls = 0
       /\ Deps(1) = {}
       /\ Attempt(1) => last'.ran]_vars

\* a blocked attempt at a stage whose dependencies are partly there (stage 3
\* with stage 1 run and stage 2 not), and stage 1 run from the initial state
C1_Witness ==
    /\ last.op = "run" /\ last.stage = 3 /\ ~last.ran
    /\ output[1] # <<>> /\ output[2] = <<>>

\* C2: when the model invocation for the stage prompt fails (non-zero exit
\* status) or cannot be made (timeout, launch failure), the run does not
\* raise there: the stage's output is the error-tagged text, which is never
\* empty, so the stage is Done and every stage whose other dependencies have
\* output is Ready.
C2_SoftFailure ==
    (last.op = "run" /\ last.ran /\ last.llm \in {"fail", "raise"})
        => /\ last.exc \notin {"OllamaError"}
           /\ IsPrefix(IF last.llm = "fail" THEN ErrorTag ELSE ExceptionTag,
                       output[last.stage])
           /\ output[last.stage] # <<>>
           /\ IsPrefix(<<"fill", "invoke", "store_output">>, last.steps)
           /\ \A m \in Stages :
                (last.stage \in Deps(m) /\ \A d \in Deps(m) \ {last.stage} : output[d] # <<>>)
                    => ready(output, m)

\* stage 2 ran with a failing invocation and stage 3 is ready after it
C2_Witness ==
    /\ last.op = "run" /\ last.ran /\ last.stage = 2 /\ last.llm = "fail"
    /\ IsPrefix(ErrorTag, output[2])
    /\ ready(output, 3)

\* C3 (as the specification states it): every run of a ready stage goes
\* through all of its steps and records output, Q&A list and report artifact.
\* The program does not satisfy this: see C3_Abort.
C3_NoAbort ==
    (last.op = "run" /\ last.ran)
        => /\ last.exc = "none"
           /\ last.steps = AllSteps
           /\ qa[last.stage] # <<>>
           /\ pdf[last.stage].made

\* C3: a run that raised in the graph fold: the output of the stage is
\* recorded, its Q&A list and report artifact are not
C3_Abort ==
    /\ last.op = "run" /\ last.ran
    /\ last.exc \in {"AttributeError", "KeyError"}
    /\ last.steps = <<"fill", "invoke", "store_output", "ontology", "fold">>
    /\ output[last.stage] # <<>>
    /\ qa[last.stage] = <<>>
    /\ ~pdf[last.stage].made

\* C6: no step of the session removes a triple from the knowledge graph
C6_Monotonic == [][kg \subseteq kg']_vars

\* stage 1 was run again after stage 2 had added its triples, and a master
\* report was made, with the graph holding triples of both stages
C6_Witness ==
    /\ last.op = "run" /\ last.ran /\ last.stage = 1
    /\ output[2] # <<>>
    /\ \E t \in kg : t[3] = StageURI(1)
    /\ \E t \in kg : t[3] = StageURI(2)

\* C10: the steps a run has begun are an initial part of: fill, invoke,
\* record output, ontology extraction, fold, Q&A extraction, record Q&A,
\* render report, record report; so Q&A is never recorded before the fold of
\* the same run, nor the report before the Q&A list.
C10_StepOrder ==
    (last.op = "run" /\ last.ran)
        => /\ IsPrefix(last.steps, AllSteps)
           /\ \A i, j \in DOMAIN last.steps :
                /\ (last.steps[i] = "fold" /\ last.steps[j] = "store_qa") => i < j
                /\ (last.steps[i] = "store_qa" /\ last.steps[j] = "store_pdf") => i < j
           /\ last.exc = "none" => last.steps = AllSteps

\* a complete run of stage 2: all nine steps
C10_Witness ==
    /\ last.op = "run" /\ last.ran /\ last.stage = 2
    /\ last.steps = AllSteps
    /\ pdf[2].made /\ qa[2] # <<>>

-----------------------------------------------------------------------------
(* render_stage with any inputs dict (SpecTemplate) *)
(* The seven calls of section 12 give every template all of its fields.  To *)
(* see what a missing field does, render_stage is also run with inputs      *)
(* dicts that hold only some of the stage's keys.                           *)

\* the environments in which only the stage prompt's response may be odd
LLMEnvs == [k \in 0..MaxOdd |->
              {env \in EnvsWithin[k] : env.ont = NominalOnt /\ env.qa = NominalQA}]

TemplateNext ==
    \/ \E n \in Stages, txt \in InputTexts, env \in LLMEnvs[MaxOdd - odd] :
          \E keys \in SUBSET InputKeys(n) : RenderStage(n, keys, txt, env)
    \/ MasterReport

SpecTemplate == Init /\ [][TemplateNext]_vars

\* the template of stage n has a placeholder that the inputs keys and the
\* earlier stages' output keys do not supply
MissingField(n, keys) ==
    \E i \in DOMAIN Placeholders(n) :
        Placeholders(n)[i] \notin keys \cup {OutputKey(j) : j \in 1..(n - 1)}

\* C9: when a ready stage is run with a field mapping that lacks one of its
\* template's placeholders, the fill raises (KeyError) before any model
\* invocation, and output, Q&A list, report artifact of every stage and the
\* knowledge graph are as before; the stage's dependencies still have
\* output, so it stays ready.
C9_TemplateFailure ==
    [][\A n \in Stages :
         (Attempt(n) /\ last'.ran /\ MissingField(n, last'.keys))
            => /\ UNCHANGED <<output, qa, pdf, kg>>
               /\ last'.exc = "KeyError"
               /\ last'.calls = 0
               /\ last'.steps = <<"fill">>
               /\ \A d \in Deps(n) : output'[d] # <<>>]_vars

\* stage 2, run before with all its fields, is run again without user_data:
\* the fill fails and the earlier results stay
C9_Witness ==
    /\ last.op = "run" /\ last.ran /\ last.stage = 2
    /\ MissingField(2, last.keys)
    /\ last.exc = "KeyError" /\ last.calls = 0
    /\ output[2] # <<>> /\ pdf[2].made

-----------------------------------------------------------------------------
(* update_kg on drawn extractions (SpecFold) *)
(* An extraction and a stage number are drawn; the extraction is folded     *)
(* into the new session's graph for that stage, then folded again for any   *)
(* stage number.                                                            *)

\* all sequences over S of length at most n
SeqsUpTo(S, n) == UNION {[1..k -> S] : k \in 0..n}

E1S2 == StrVal(<<"E", "1", "_", "S", "2">>)

\* entities: bare, with label and type, with an id that looks stage-marked,
\* and without id
EntityItems ==
    {Obj(<<<<kId, E1>>>>),
     Obj(<<<<kId, E2>>, <<kLabel, StrVal(<<"X">>)>>, <<kType, StrVal(<<"P">>)>>>>),
     Obj(<<<<kId, E1S2>>>>),
     Obj(<<<<kLabel, StrVal(<<"X">>)>>>>)}

RelationLists ==
    {<<>>, <<Obj(<<<<kFrom, E1>>, <<kTo, E2>>, <<kType, StrVal(<<"r">>)>>>>)>>,
     <<Obj(<<<<kFrom, E1>>>>)>>}

AttributeLists ==
    {<<>>, <<Obj(<<<<kEntity, E1>>, <<kKey, StrVal(<<"k">>)>>, <<kValue, StrVal(<<"v">>)>>>>)>>,
     <<Obj(<<<<kKey, StrVal(<<"k">>)>>>>)>>}

FoldOnts ==
    {Obj(<<<<kEntities, Arr(es)>>, <<kRelations, Arr(rs)>>, <<kAttributes, Arr(as)>>>>) :
        es \in SeqsUpTo(EntityItems, MaxItems), rs \in RelationLists, as \in AttributeLists}

FoldInit ==
    /\ output = [n \in Stages |-> <<>>]
    /\ qa = [n \in Stages |-> <<>>]
    /\ pdf = [n \in Stages |-> NoPdf]
    /\ kg = {}
    /\ last = NoRun
    /\ odd = 0
    /\ ever = {}
    /\ h \in [fn : {"fold"}, phase : {0}, ont : FoldOnts, s : Stages, t : {0},
              first : {{}}, exc1 : {"none"}, exc2 : {"none"}]

\* update_kg(h.s, h.ont)
FoldFirst ==
    /\ h.phase = 0
    /\ \E r \in {update_kg(kg, h.s, h.ont)} :
         /\ kg' = r.g
         /\ h' = [h EXCEPT !.phase = 1, !.first = r.g, !.exc1 = r.exc]
    /\ UNCHANGED <<output, qa, pdf, last, odd, ever>>

\* update_kg(t, h.ont) on the graph the first fold left
FoldSecond(t) ==
    /\ h.phase = 1
    /\ \E r \in {update_kg(kg, t, h.ont)} :
         /\ kg' = r.g
         /\ h' = [h EXCEPT !.phase = 2, !.t = t, !.exc2 = r.exc]
    /\ UNCHANGED <<output, qa, pdf, last, odd, ever>>

FoldNext == FoldFirst \/ \E t \in Stages : FoldSecond(t)

SpecFold == FoldInit /\ [][FoldNext]_vars

Subjects(g) == {t[1] : t \in g}

\* C4 (as the specification states it): the second fold of the same
\* extraction for the same stage doubles the number of triples.  The graph
\* is a set of triples, so this fails whenever the fold produces a triple.
C4_Doubles ==
    (h.phase = 2 /\ h.t = h.s) => Cardinality(kg) = 2 * Cardinality(h.first)

\* C4 (amended): folding the same extraction again for the same stage number
\* adds no triple: the graph after the second fold is the graph after the
\* first one, and raises what the first one raised.
C4_Idempotent ==
    (h.phase = 2 /\ h.t = h.s)
        => /\ kg = h.first
           /\ Cardinality(kg) = Cardinality(h.first)
           /\ h.exc2 = h.exc1

\* an extraction with entities, a relation and an attribute was folded twice
\* for one stage: at least five triples, and no more after the second fold
C4_Witness ==
    /\ h.phase = 2 /\ h.t = h.s
    /\ h.exc1 = "none"
    /\ Cardinality(h.first) >= 5
    /\ Cardinality(kg) = Cardinality(h.first)

\* the identifier f"{e}_S{n}" written out, n a stage number
Marked(e, n) == URIRef("pso", PyStr(e) \o <<"_", "S", Digit(n)>>)

\* the ids of the entity items of an extraction
EntityIds(ont) ==
    {GetKey(x, kId) : x \in {y \in Range(GetKey(ont, kEntities).v) : HasKey(y, kId)}}

\* C5: when one extraction is folded at stage s and at a different stage t,
\* every entity id e in it gives the two distinct subjects e_S<s> and
\* e_S<t>, and no subject of a triple the fold at s produces is the subject
\* of a triple the fold at t produces.
C5_Namespacing ==
    (h.phase = 2 /\ h.t # h.s)
        => /\ (h.exc1 = "none" /\ h.exc2 = "none")
                => \A e \in EntityIds(h.ont) :
                      /\ Marked(e, h.s) \in Subjects(h.first)
                      /\ Marked(e, h.t) \in Subjects(kg \ h.first)
                      /\ Marked(e, h.s) # Marked(e, h.t)
           /\ Subjects(h.first) \cap Subjects(update_kg({}, h.t, h.ont).g) = {}
           /\ Cardinality(kg) = Cardinality(h.first)
                                   + Cardinality(update_kg({}, h.t, h.ont).g)

\* two entities with ids E1 and E1_S2 folded at stage 1 and then at stage 2:
\* four distinct subjects
C5_Witness ==
    /\ h.phase = 2 /\ h.s = 1 /\ h.t = 2
    /\ h.exc1 = "none" /\ h.exc2 = "none"
    /\ {E1, E1S2} \subseteq EntityIds(h.ont)
    /\ {Marked(E1, 1), Marked(E1S2, 1), Marked(E1, 2), Marked(E1S2, 2)} \subseteq Subjects(kg)
    /\ Cardinality(Subjects(kg)) >= 4

-----------------------------------------------------------------------------
(* ontology_agent on drawn responses (SpecOntology) *)
(* A response is drawn as leading text, a body and trailing text; the       *)
(* process either prints it (exit status 0) or fails with it on stderr.     *)

BraceJunk == <<"a", "{", "b", " ">>

LeadTexts == {<<>>, Junk, BraceJunk, <<"[">>}

\* a nested object, the empty object, an array, nothing, a cut-off object
BodyTexts == {Dumps(Ont2), Dumps(EmptyDict), <<"[", "]">>, <<>>, <<"{", DQ, "a", DQ>>}

TrailTexts == {<<>>, Trail, <<"]">>, <<" ", "}">>}

OntologyInit ==
    /\ output = [n \in Stages |-> <<>>]
    /\ qa = [n \in Stages |-> <<>>]
    /\ pdf = [n \in Stages |-> NoPdf]
    /\ kg = {}
    /\ last = NoRun
    /\ odd = 0
    /\ ever = {}
    /\ \E lead \in LeadTexts, body \in BodyTexts, trail \in TrailTexts,
          kind \in {"ok", "fail"} :
          h = [fn |-> "ontology", phase |-> 0, lead |-> lead, body |-> body,
               trail |-> trail,
               proc |-> [kind |-> kind, text |-> lead \o body \o trail],
               res |-> [val |-> NoValue, path |-> "none", calls |-> 0]]

\* ont = ontology_agent(text)
Extract ==
    /\ h.phase = 0
    /\ h' = [h EXCEPT !.phase = 1, !.res = ontology_agent(h.proc)]
    /\ UNCHANGED <<output, qa, pdf, kg, last, odd, ever>>

SpecOntology == OntologyInit /\ [][Extract]_vars

HasBrace(s) == \E i \in DOMAIN s : s[i] \in {LB, RB}

\* the text from the first "{" of s to its last "}", <<>> when there is none
FirstToLast(s) ==
    IF \E i, j \in DOMAIN s : i < j /\ s[i] = LB /\ s[j] = RB
    THEN SubSeq(s, Min({i \in DOMAIN s : s[i] = LB}), Max({j \in DOMAIN s : s[j] = RB}))
    ELSE <<>>

\* the response is: non-JSON text, then a valid JSON object, then junk
\* without braces
Sandwich ==
    /\ h.proc.kind = "ok"
    /\ h.lead # <<>> /\ ~json_loads(h.lead).ok
    /\ json_loads(h.body).ok /\ json_loads(h.body).val.t = "obj"
    /\ h.trail # <<>> /\ ~HasBrace(h.trail)

\* C8 (as the specification states it): every such response yields the
\* object through the brace scan.  This fails when the leading text has a
\* brace of its own, and when the whole response happens to be valid JSON.
C8_SandwichScans ==
    (h.phase = 1 /\ Sandwich)
        => h.res.path = "scan" /\ h.res.val = json_loads(h.body).val

\* C8 (amended): the three strategies in order - the whole response when it
\* is valid JSON; else the text from its first "{" to its last "}" when
\* that is valid JSON; else the empty dict, which reads as no entities, no
\* relations and no attributes.  One of the three always applies.  A
\* response of non-JSON text, a valid JSON object and trailing junk yields
\* that object through the second strategy when neither the leading nor the
\* trailing text has a brace and the response as a whole is not valid JSON.
C8_Strategies ==
    h.phase = 1 =>
        LET raw == run_ollama(h.proc).text
            whole == json_loads(raw)
            span == FirstToLast(raw)
            inner == json_loads(span)
        IN  /\ h.res.calls = 1
            /\ h.res.path \in {"strict", "scan", "empty"}
            /\ whole.ok => h.res.path = "strict" /\ h.res.val = whole.val
            /\ (~whole.ok /\ span # <<>> /\ inner.ok)
                  => h.res.path = "scan" /\ h.res.val = inner.val
            /\ (~whole.ok /\ (span = <<>> \/ ~inner.ok))
                  => /\ h.res.path = "empty" /\ h.res.val = EmptyDict
                     /\ \A k \in {kEntities, kRelations, kAttributes} :
                           Get(h.res.val, k, Arr(<<>>)) = Arr(<<>>)
            /\ (Sandwich /\ ~HasBrace(h.lead) /\ ~whole.ok)
                  => h.res.path = "scan" /\ h.res.val = json_loads(h.body).val

\* "see: " then a nested object then " ok": the object, through the scan
C8_Witness ==
    /\ h.phase = 1 /\ Sandwich
    /\ h.lead = Junk /\ h.body = Dumps(Ont2) /\ h.trail = Trail
    /\ h.res.path = "scan" /\ h.res.val = Ont2

-----------------------------------------------------------------------------
(* qa_extractor on drawn texts and responses (SpecQA) *)
(* The stage text is drawn with a length around the answer limit, the       *)
(* response as at most MaxLines lines.                                      *)

\* a text of n characters, the i-th one the last digit of i
TextOfLen(n) == [i \in 1..n |-> Digit(i % 10)]

TextLengths == {0, 1, QALimit - 1, QALimit} \cup {QALimit + k : k \in 1..MaxOver}

\* two question lines, an answer line, a line that is neither, a blank line
QALines ==
    {<<"Q", "1", ":", " ", "a">>, <<"Q", "2", ":", " ", "c">>,
     <<"A", "1", ":", " ", "b">>, <<"x">>, <<" ">>}

\* "\n".join(lines)
RECURSIVE JoinLines(_, _)
JoinLines(lines, i) ==
    IF i > Len(lines) THEN <<>>
    ELSE lines[i] \o (IF i < Len(lines) THEN <<"\n">> ELSE <<>>) \o JoinLines(lines, i + 1)

QAResponses == {JoinLines(ls, 1) : ls \in SeqsUpTo(QALines, MaxLines)}

QAInit ==
    /\ output = [n \in Stages |-> <<>>]
    /\ qa = [n \in Stages |-> <<>>]
    /\ pdf = [n \in Stages |-> NoPdf]
    /\ kg = {}
    /\ last = NoRun
    /\ odd = 0
    /\ ever = {}
    /\ \E n \in TextLengths, resp \in QAResponses, kind \in {"ok", "fail"} :
          h = [fn |-> "qa", phase |-> 0, text |-> TextOfLen(n),
               proc |-> [kind |-> kind, text |-> resp], res |-> <<>>]

\* qa = qa_extractor(llm_out)
ExtractQA ==
    /\ h.phase = 0
    /\ h' = [h EXCEPT !.phase = 1, !.res = qa_extractor(h.text, h.proc)]
    /\ UNCHANGED <<output, qa, pdf, kg, last, odd, ever>>

SpecQA == QAInit /\ [][ExtractQA]_vars

\* no line of the model's answer begins, once stripped, with "Q": the
\* parser finds no pair
NoQLine ==
    LET lines == SplitOn(run_ollama(h.proc).text, "\n")
    IN  \A i \in DOMAIN lines : ~StartsWith(Strip(lines[i]), <<"Q">>)

\* the first QALimit characters of the text, then the ellipsis exactly when
\* the text is longer
CutText(text) ==
    [i \in 1..(IF Len(text) > QALimit THEN QALimit + 1 ELSE Len(text)) |->
        IF i <= QALimit THEN text[i] ELSE Ellipsis]

\* C7: the extractor never returns an empty sequence; when the parser finds
\* no pair it returns exactly one pair, the sentinel "Full stage output"
\* with the first 1000 characters of the stage text, followed by the
\* ellipsis if and only if the text is longer than 1000 characters.
C7_Fallback ==
    h.phase = 1 =>
        /\ h.res # <<>>
        /\ NoQLine => h.res = <<<<Sentinel, CutText(h.text)>>>>
        /\ ~NoQLine => \A i \in DOMAIN h.res : h.res[i][1] # Sentinel

\* a text of 1001 characters and an answer without a question line: the
\* sentinel pair, its answer 1000 characters and the ellipsis
C7_Witness ==
    /\ h.phase = 1 /\ NoQLine
    /\ Len(h.text) = QALimit + 1
    /\ Len(h.res) = 1 /\ h.res[1][1] = Sentinel
    /\ Len(h.res[1][2]) = QALimit + 1
    /\ h.res[1][2][QALimit + 1] = Ellipsis
    /\ h.res[1][2][QALimit] = h.text[QALimit]

\* the non-blank stripped lines of the model's answer, and the positions of
\* those that begin with "Q"
AnswerLines == NonBlankLines(run_ollama(h.proc).text)
QIndex == {i \in DOMAIN AnswerLines : StartsWith(AnswerLines[i], <<"Q">>)}

\* C11: when some line of the answer begins with "Q", the extractor returns
\* one pair per such line, in line order; the question is the line after its
\* first three characters, stripped; the answer is the next line after its
\* first three characters, stripped, when that line begins with "A", and
\* empty otherwise (a following "Q" line starts its own pair)
C11_Pairing ==
    (h.phase = 1 /\ QIndex # {}) =>
        LET qs == SortedSeq(QIndex)
        IN  /\ Len(h.res) = Cardinality(QIndex)
            /\ \A k \in DOMAIN qs :
                  /\ h.res[k][1] = Strip(Drop(AnswerLines[qs[k]], QPrefix))
                  /\ h.res[k][2] =
                        IF qs[k] + 1 <= Len(AnswerLines)
                           /\ StartsWith(AnswerLines[qs[k] + 1], <<"A">>)
                        THEN Strip(Drop(AnswerLines[qs[k] + 1], QPrefix))
                        ELSE <<>>

\* the answer "Q1: a", "Q2: c", "A1: b": two pairs, the first with an empty
\* answer, the second answered
C11_Witness ==
    /\ h.phase = 1
    /\ h.proc.kind = "ok"
    /\ AnswerLines = <<<<"Q", "1", ":", " ", "a">>, <<"Q", "2", ":", " ", "c">>,
                       <<"A", "1", ":", " ", "b">>>>
    /\ h.res = <<<< <<"a">>, <<>> >>, << <<"c">>, <<"b">> >>>>

-----------------------------------------------------------------------------
(* The graph and the stage records over a session (properties of Spec) *)

\* s ends with suf
EndsWith(s, suf) == Len(suf) <= Len(s) /\ SubSeq(s, Len(s) - Len(suf) + 1, Len(s)) = suf

\* u is a URI whose local name carries the mark "_S<n>" of stage n
Suffixed(u, n) == u.k = "uri" /\ EndsWith(u.v, <<"_", "S">> \o IntToStr(n))

\* C12 (as the specification states it): every subject and every object URI
\* of every triple of the graph carries the mark of a stage.  The class of
\* an rdf:type triple and the stage node of an inStage triple carry none.
C12_AllMarked ==
    \A t \in kg :
        /\ \E n \in Stages : Suffixed(t[1], n)
        /\ t[3].k = "uri" => \E n \in Stages : Suffixed(t[3], n)

\* C12: every triple a run of stage N adds to the graph has a subject that
\* carries the mark _S<N>; its object, when it is a URI, carries the mark
\* _S<N> too, unless the triple is an rdf:type triple (the object is the
\* class) or the inStage triple (the object is the node Stage<N>); these two
\* objects are shared, unmarked URIs.
C12_Namespacing ==
    [][\A t \in kg' \ kg :
          /\ Suffixed(t[1], last'.stage)
          /\ t[3].k = "uri"
                => \/ Suffixed(t[3], last'.stage)
                   \/ t[2] = RDF_type
                   \/ t[2] = PSO_inStage /\ t[3] = StageURI(last'.stage)]_vars

\* stage 2 has folded the example extraction after stage 1 had: the graph
\* holds the relation E1_S2 -r-> E2_S2 with both ends marked, next to the
\* unmarked class P and the unmarked node Stage2, and stage 1's triples
C12_Witness ==
    /\ last.op = "run" /\ last.ran /\ last.stage = 2 /\ last.exc = "none"
    /\ <<Marked(E1, 2), PSO(StrVal(<<"r">>)), Marked(E2, 2)>> \in kg
    /\ <<Marked(E1, 2), RDF_type, PSO(StrVal(<<"P">>))>> \in kg
    /\ <<Marked(E1, 2), PSO_inStage, StageURI(2)>> \in kg
    /\ <<Marked(E1, 1), PSO(StrVal(<<"r">>)), Marked(E2, 1)>> \in kg

\* C13 (as the specification's state machine implies): whenever the output
\* of a stage is non-empty, the output of each of its dependencies is
\* non-empty.  The program does not keep this: see C13_Reopened.
C13_DoneClosed ==
    \A n \in Stages : output[n] # <<>> => \A d \in Deps(n) : output[d] # <<>>

\* C13: stage 1 was run again and the model printed nothing (exit status 0):
\* its output is the empty string again, while stage 2, computed from the
\* earlier output, still has its own
C13_Reopened ==
    /\ last.op = "run" /\ last.ran /\ last.stage = 1 /\ last.llm = "ok"
    /\ output[1] = <<>>
    /\ output[2] # <<>>
    /\ ~ready(output, 2)

\* C14 (as the specification states it): in every state between runs a
\* stage has a non-empty output exactly when it has a recorded Q&A list and
\* a recorded report artifact.  The program does not keep this: see
\* C14_PartlySet.
C14_Consistent ==
    \A n \in Stages : (output[n] # <<>>) <=> (qa[n] # <<>> /\ pdf[n].made)

\* C14: a first run of stage 1 in which the model printed nothing went through
\* all of its steps: the output recorded is the empty string, while a Q&A
\* list and a report artifact are recorded for the stage
C14_PartlySet ==
    /\ last.op = "run" /\ last.ran /\ last.stage = 1
    /\ last.exc = "none" /\ last.steps = AllSteps
    /\ \A n \in Stages \ {1} : output[n] = <<>> /\ qa[n] = <<>> /\ ~pdf[n].made
    /\ output[1] = <<>>
    /\ qa[1] # <<>>
    /\ pdf[1].made

\* C15: an attempt to run stage N leaves the output, the Q&A list and the
\* report artifact of every other stage as they were, those of the stages
\* that depend on N included, and removes no triple from the graph
C15_Frame ==
    [][\A n \in Stages :
          Attempt(n) =>
             /\ \A m \in Stages \ {n} :
                   output'[m] = output[m] /\ qa'[m] = qa[m] /\ pdf'[m] = pdf[m]
             /\ kg \subseteq kg']_vars

\* stage 1 was run again and its output is now the error text of a failed
\* model process; stage 2 still holds the output, the Q&A list and the
\* report it got from stage 1's earlier output
C15_Witness ==
    /\ last.op = "run" /\ last.ran /\ last.stage = 1 /\ last.llm = "fail"
    /\ IsPrefix(ErrorTag, output[1])
    /\ output[2] = NominalLLM.text
    /\ qa[2] # <<>>
    /\ pdf[2].made

\* C16: a master report is made only in a state where stage 7's output is
\* non-empty; in every state where stage 7's output is non-empty each of
\* the stages 1..7 has been run at least once; making the master report
\* changes no stage's output, Q&A list or report artifact and leaves the
\* graph as it was
C16_MasterGate ==
    [][/\ output[NumStages] # <<>> => ever = Stages
       /\ output'[NumStages] # <<>> => ever' = Stages
       /\ last'.op = "master"
             => /\ output[NumStages] # <<>>
                /\ UNCHANGED <<output, qa, pdf, kg>>]_vars

\* a master report made after all seven stages ran and stage 1, run again,
\* got an empty output: stage 7 has output, every stage has been run, and
\* the graph holds what the seven runs put there
C16_Witness ==
    /\ last.op = "master" /\ last.exc = "none"
    /\ output[NumStages] # <<>>
    /\ ever = Stages
    /\ output[1] = <<>>
    /\ \A n \in Stages : \E t \in kg : t[3] = StageURI(n)

=============================================================================
